---- MODULE Spec2Model ----
(***************************************************************************)
(* Model of class waplns (warped all-pole lattice noise shaper),           *)
(* src/waplns.hpp and src/waplns.cpp.                                      *)
(*                                                                         *)
(* Numbers.  The filter's algebra is modelled in exact arithmetic: a value *)
(* is a pair <<n, d>>, the reduced fraction n/d with d > 0.  The one place *)
(* where the code leaves the rationals is the division 1.0/a of            *)
(* precompute_derived_params with a = 0; it is modelled by what IEEE 754   *)
(* arithmetic does there: <<1,0>> and <<-1,0>> are +Inf and -Inf, <<0,0>>  *)
(* is NaN, and the operations below propagate them as the hardware does.   *)
(* Rounding to float/double precision is not modelled.                     *)
(***************************************************************************)
EXTENDS Integers

\* src/waplns.hpp:6
max_wapl_filt_order == 32

(***************************************************************************)
(* Bounds of the model.                                                    *)
(***************************************************************************)
\* number of set_params calls in a run
MaxSetParams == 3
\* number of x_was calls in a run
MaxSamples == 2

Idx == 0 .. (max_wapl_filt_order - 1)

(***************************************************************************)
(* Arithmetic.                                                             *)
(***************************************************************************)
Abs(n) == IF n < 0 THEN -n ELSE n

Sgn(n) == IF n < 0 THEN -1 ELSE IF n > 0 THEN 1 ELSE 0

RECURSIVE GCD(_, _)
GCD(a, b) == IF b = 0 THEN a ELSE GCD(b, a % b)

Norm(n, d) ==
    IF d = 0 THEN <<Sgn(n), 0>>
    ELSE LET g == GCD(Abs(n), Abs(d))
             s == IF d < 0 THEN -1 ELSE 1
         IN  <<(s * n) \div g, (s * d) \div g>>

Zero == <<0, 1>>
One  == <<1, 1>>
NaN  == <<0, 0>>
PInf == <<1, 0>>

IsFinite(x) == x[2] # 0

RNeg(x) == <<-x[1], x[2]>>

RAdd(x, y) ==
    IF x[2] = 0 /\ y[2] = 0
    THEN (IF x = y THEN x ELSE NaN)
    ELSE IF x[2] = 1 /\ y[2] = 1 THEN <<x[1] + y[1], 1>>
    ELSE Norm(x[1] * y[2] + y[1] * x[2], x[2] * y[2])

RSub(x, y) == RAdd(x, RNeg(y))

RMul(x, y) ==
    IF x[2] = 1 /\ y[2] = 1 THEN <<x[1] * y[1], 1>>
    ELSE Norm(x[1] * y[1], x[2] * y[2])

RInv(x) ==
    IF x[1] > 0 THEN <<x[2], x[1]>>
    ELSE IF x[1] < 0 THEN <<-x[2], -x[1]>>
    ELSE IF x[2] = 0 THEN NaN
    ELSE PInf

RDiv(x, y) == RMul(x, RInv(y))

(***************************************************************************)
(* The helpers of the anonymous namespace.                                 *)
(***************************************************************************)
\* lattice_step(a, b, k): ak = a*k; a -= b*k; b -= ak.  Result <<a, b>>.
lattice_step(a, b, k) == <<RSub(a, RMul(b, k)), RSub(b, RMul(a, k))>>

\* apply_D_alter_t(io, t, lambda).  Result <<io, t>>.
apply_D_alter_t(io, t, lambda) ==
    LET next_t == RAdd(io, RMul(lambda, t))
    IN  <<RSub(t, RMul(lambda, next_t)), next_t>>

\* apply_D_keep_t(io, t, lambda).  Result io.
apply_D_keep_t(io, t, lambda) ==
    LET next_t == RAdd(io, RMul(lambda, t))
    IN  RSub(t, RMul(lambda, next_t))

(***************************************************************************)
(* State: the members of class waplns (src/waplns.hpp:60-71), and a record *)
(* of the last call made on the object.                                    *)
(***************************************************************************)
VARIABLES order_, lambda_, k_, s1_, s2_, t_, next_u_, call, nset, nsamp

vars == <<order_, lambda_, k_, s1_, s2_, t_, next_u_, call, nset, nsamp>>

\* The object's members as one record (what `call.pre` keeps of the state
\* in which a call was made).
Members ==
    [order |-> order_, lambda |-> lambda_, k |-> k_, s1 |-> s1_, s2 |-> s2_,
     t |-> t_, next_u |-> next_u_]

(***************************************************************************)
(* Inputs.                                                                 *)
(***************************************************************************)
Half == <<1, 2>>

\* The supplied coefficient arrays: newk[0] = p, newk[1] = -1/2, and a
\* sparse tail that marks the last index the filter can hold and the first
\* one it cannot.
Coef(p, i) ==
    IF i = 0 THEN p
    ELSE IF i = 1 THEN <<-1, 2>>
    ELSE IF i = max_wapl_filt_order - 1 THEN One
    ELSE IF i = max_wapl_filt_order THEN <<3, 1>>
    ELSE Zero

\* The set_params calls made: lam, ord and newk[0].
\*   - no stage (ord 0) and a negative order;
\*   - warped filters of order 1 and 2 within the nominal ranges
\*     (|lambda| < 1, |k| < 1; order 2 is the shape of the test driver's);
\*   - a warped filter of order 1 outside them, of accumulated gain
\*     a = 1 + lambda * k[0] = 0;
\*   - a request beyond the maximum order, with lambda = 0 (a pure delay in
\*     place of the all-pass: (-lambda)^order must fit the model checker's
\*     integers).
Calls ==
    { [lam |-> Zero, ord |-> -3, p |-> Half],
      [lam |-> Zero, ord |-> 0,  p |-> Half],
      [lam |-> Half, ord |-> 1,  p |-> Half],
      [lam |-> Half, ord |-> 2,  p |-> Half],
      [lam |-> Half, ord |-> 1,  p |-> <<-2, 1>>],
      [lam |-> Zero, ord |-> max_wapl_filt_order + 1, p |-> Half] }

\* unfiltered quantization errors passed to x_was
XVals == {Zero, One}

\* what uninitialized storage may hold: k_ and t_ after construction
Junk == <<7, 1>>

Garbage == {Zero, Junk}

Min(a, b) == IF a < b THEN a ELSE b

(***************************************************************************)
(* waplns::precompute_derived_params, src/waplns.cpp:83-94.                *)
(* In the loops below the conjuncts a = a, b = b, ... only make the model  *)
(* checker evaluate an iteration's accumulators before the next iteration. *)
(***************************************************************************)
RECURSIVE GainLoop(_, _, _, _, _, _)
GainLoop(i, order, a, b, negative_lam, k) ==
    IF i < order /\ a = a /\ b = b
    THEN LET s == lattice_step(a, RMul(b, negative_lam), k[i])
         IN  GainLoop(i + 1, order, s[1], s[2], negative_lam, k)
    ELSE a

\* the accumulator a at the end of the loop
WarpGainOf(order, lambda, k) == GainLoop(0, order, One, One, RNeg(lambda), k)

precompute_positive_lam(order, lambda, k) ==
    <<One, RDiv(One, GainLoop(0, order, One, One, lambda, k))>>

\* Result <<s1_, s2_>>.
precompute_derived_params(order, lambda, k) ==
    <<One, RDiv(One, WarpGainOf(order, lambda, k))>>

(***************************************************************************)
(* The look-ahead pass of set_params (and of x_was).                       *)
(***************************************************************************)
RECURSIVE NuLoop(_, _, _, _, _, _, _)
NuLoop(i, order, nua, nub, lam, k, t) ==
    IF i < order /\ nua = nua /\ nub = nub
    THEN LET s == lattice_step(nua, apply_D_keep_t(nub, t[i], lam), k[i])
         IN  NuLoop(i + 1, order, s[1], s[2], lam, k, t)
    ELSE nua

(***************************************************************************)
(* waplns::set_params(lam, ord, newk), src/waplns.cpp:96-116.              *)
(* m is the object before the call.  The loop at lines 102-104 starts at   *)
(* the old order_; when that is negative it stores through t_[i] with      *)
(* i < 0, outside the array.  `lands` is what such a store does: TRUE, it  *)
(* lands on the member that the declaration order puts there (t_[-1] is    *)
(* s2_, t_[-2] is s1_, t_[-3-j] is k_[31-j]); FALSE, it changes no member. *)
(* s1_ and s2_ are assigned again at line 107, so only k_ can keep it.     *)
(* Result: the members after the call, and the indices the call used.      *)
(***************************************************************************)
\* k_ after lines 99-104: the copy, then what a store outside t_ leaves.
stored_k_zero_beyond(m, neword, newk, lands) ==
    [i \in Idx |-> IF i < neword THEN newk[i] ELSE Zero]

stored_k(m, neword, newk, lands) ==
    [i \in Idx |->
        IF lands /\ (i - max_wapl_filt_order - 2) \in m.order .. (neword - 1)
        THEN Zero
        ELSE IF i < neword THEN newk[i] ELSE m.k[i]]

\* t_ after lines 102-104.
stored_t_no_zero(m, neword) == m.t

stored_t(m, neword) ==
    [i \in Idx |-> IF i \in m.order .. (neword - 1) THEN Zero ELSE m.t[i]]

set_params_stale_scales(m, lam, ord, newk, lands) ==
    LET neword == Min(ord, max_wapl_filt_order)
        k2     == stored_k(m, neword, newk, lands)
        t1     == stored_t(m, neword)
        nua    == NuLoop(0, neword, Zero, Zero, lam, k2, t1)
    IN  [order |-> neword, lambda |-> lam, k |-> k2, s1 |-> m.s1, s2 |-> m.s2,
         t |-> t1, next_u |-> RMul(nua, m.s2),
         rd   |-> 0 .. (neword - 1),
         kidx |-> 0 .. (neword - 1),
         tidx |-> (m.order .. (neword - 1)) \cup (0 .. (neword - 1))]

set_params_keep_u(m, lam, ord, newk, lands) ==
    LET neword == Min(ord, max_wapl_filt_order)
        k2     == stored_k(m, neword, newk, lands)
        t1     == stored_t(m, neword)
        s      == precompute_derived_params(neword, lam, k2)
    IN  [order |-> neword, lambda |-> lam, k |-> k2, s1 |-> s[1], s2 |-> s[2],
         t |-> t1, next_u |-> m.next_u,
         rd   |-> 0 .. (neword - 1),
         kidx |-> 0 .. (neword - 1),
         tidx |-> (m.order .. (neword - 1)) \cup (0 .. (neword - 1))]

set_params(m, lam, ord, newk, lands) ==
    LET neword == Min(ord, max_wapl_filt_order)
        k2     == stored_k(m, neword, newk, lands)
        t1     == stored_t(m, neword)
        s      == precompute_derived_params(neword, lam, k2)
        nua    == NuLoop(0, neword, Zero, Zero, lam, k2, t1)
    IN  [order |-> neword, lambda |-> lam, k |-> k2, s1 |-> s[1], s2 |-> s[2],
         t |-> t1, next_u |-> RMul(nua, s[2]),
         rd   |-> 0 .. (neword - 1),
         kidx |-> 0 .. (neword - 1),
         tidx |-> (m.order .. (neword - 1)) \cup (0 .. (neword - 1))]

(***************************************************************************)
(* template<class Iter> waplns::set_params(lam, ord, it),                  *)
(* src/waplns.hpp:96-106: copies min(ord, max) items of the source into    *)
(* temp and calls the pointer overload on temp.  Entries of temp that were *)
(* not copied are uninitialized; the pointer overload reads none of them.  *)
(***************************************************************************)
set_params_iter(m, lam, ord, it, lands) ==
    LET ord2 == Min(ord, max_wapl_filt_order)
        temp == [i \in Idx |-> IF i < ord2 THEN it[i] ELSE Junk]
        r    == set_params(m, lam, ord2, temp, lands)
    IN  [r EXCEPT !.rd = 0 .. (ord2 - 1)]

(***************************************************************************)
(* waplns::reset_state, src/waplns.cpp:118-124.                            *)
(***************************************************************************)
reset_state_keep_u(m) ==
    [m EXCEPT !.t = [i \in Idx |-> IF i < m.order THEN Zero ELSE m.t[i]]]

reset_state(m) ==
    [m EXCEPT !.t = [i \in Idx |-> IF i < m.order THEN Zero ELSE m.t[i]],
              !.next_u = Zero]

(***************************************************************************)
(* waplns::x_was(x), src/waplns.cpp:126-146.                               *)
(***************************************************************************)
RECURSIVE XLoopOldT(_, _, _, _, _, _, _, _, _)
XLoopOldT(i, order, a, b, nua, nub, lam, k, t) ==
    IF i < order /\ a = a /\ b = b /\ nua = nua /\ nub = nub
    THEN LET d  == apply_D_alter_t(b, t[i], lam)
             nb == apply_D_keep_t(nub, t[i], lam)
             s  == lattice_step(a, d[1], k[i])
             ns == lattice_step(nua, nb, k[i])
         IN  XLoopOldT(i + 1, order, s[1], s[2], ns[1], ns[2], lam, k,
                       [t EXCEPT ![i] = d[2]])
    ELSE [a |-> a, nua |-> nua, t |-> t]

RECURSIVE XLoop(_, _, _, _, _, _, _, _, _)
XLoop(i, order, a, b, nua, nub, lam, k, t) ==
    IF i < order /\ a = a /\ b = b /\ nua = nua /\ nub = nub
    THEN LET d  == apply_D_alter_t(b, t[i], lam)
             nb == apply_D_keep_t(nub, d[2], lam)
             s  == lattice_step(a, d[1], k[i])
             ns == lattice_step(nua, nb, k[i])
         IN  XLoop(i + 1, order, s[1], s[2], ns[1], ns[2], lam, k,
                   [t EXCEPT ![i] = d[2]])
    ELSE [a |-> a, nua |-> nua, t |-> t]

\* Result: the members after the call; `a` is the forward accumulator at the
\* end of the loop.
x_was(m, x) ==
    LET y == RSub(x, m.next_u)
        a == RMul(y, m.s1)
        r == XLoop(0, m.order, a, a, Zero, Zero, m.lambda, m.k, m.t)
    IN  [members |-> [m EXCEPT !.t = r.t, !.next_u = RMul(r.nua, m.s2)],
         a |-> r.a]

\* The read accessors, src/waplns.hpp:78-81 and 90.
warp_gain == RDiv(RDiv(One, s1_), s2_)

order == order_

u == next_u_

k(idx) == k_[idx]

(***************************************************************************)
(* The state machine.                                                      *)
(***************************************************************************)
NoSet == {}

\* waplns::waplns(), src/waplns.hpp:76: k_ and t_ are left uninitialized.
Init ==
    /\ order_ = 0
    /\ lambda_ = Zero
    /\ s1_ = One
    /\ s2_ = One
    /\ next_u_ = Zero
    /\ \E g \in Garbage :
          /\ k_ = [i \in Idx |-> g]
          /\ t_ = [i \in Idx |-> g]
          /\ call = [op |-> "waplns", lam |-> Zero, ord |-> 0, p |-> Zero,
                     x |-> Zero, a |-> Zero, rd |-> NoSet, kidx |-> NoSet,
                     tidx |-> NoSet,
                     pre |-> [order |-> 0, lambda |-> Zero,
                              k |-> [i \in Idx |-> g], s1 |-> One, s2 |-> One,
                              t |-> [i \in Idx |-> g], next_u |-> Zero]]
    /\ nset = 0
    /\ nsamp = 0

Store(r) ==
    /\ order_' = r.order
    /\ lambda_' = r.lambda
    /\ k_' = r.k
    /\ s1_' = r.s1
    /\ s2_' = r.s2
    /\ t_' = r.t
    /\ next_u_' = r.next_u

\* What a store outside t_ may do; there is one only when order_ < 0.
Landings == IF order_ < 0 THEN BOOLEAN ELSE {TRUE}

Supplied(p) == [i \in 0 .. max_wapl_filt_order |-> Coef(p, i)]

SetParams ==
    /\ nset < MaxSetParams
    /\ \E c \in Calls, lands \in Landings :
          \E r \in {set_params(Members, c.lam, c.ord, Supplied(c.p), lands)} :
             /\ Store(r)
             /\ call' = [op |-> "set_params", lam |-> c.lam, ord |-> c.ord,
                         p |-> c.p, x |-> Zero, a |-> Zero, rd |-> r.rd,
                         kidx |-> r.kidx, tidx |-> r.tidx, pre |-> Members]
    /\ nset' = nset + 1
    /\ UNCHANGED nsamp

SetParamsIter ==
    /\ nset < MaxSetParams
    /\ \E c \in Calls, lands \in Landings :
          \E r \in {set_params_iter(Members, c.lam, c.ord, Supplied(c.p), lands)} :
             /\ Store(r)
             /\ call' = [op |-> "set_params", lam |-> c.lam, ord |-> c.ord,
                         p |-> c.p, x |-> Zero, a |-> Zero, rd |-> r.rd,
                         kidx |-> r.kidx, tidx |-> r.tidx, pre |-> Members]
    /\ nset' = nset + 1
    /\ UNCHANGED nsamp

ResetState ==
    /\ Store(reset_state(Members))
    /\ call' = [op |-> "reset_state", lam |-> Zero, ord |-> 0, p |-> Zero,
                x |-> Zero, a |-> Zero, rd |-> NoSet, kidx |-> NoSet,
                tidx |-> 0 .. (order_ - 1), pre |-> Members]
    /\ UNCHANGED <<nset, nsamp>>

XWas ==
    /\ nsamp < MaxSamples
    /\ \E x \in XVals :
          \E r \in {x_was(Members, x)} :
              /\ Store(r.members)
              /\ call' = [op |-> "x_was", lam |-> Zero, ord |-> 0, p |-> Zero,
                          x |-> x, a |-> r.a, rd |-> NoSet,
                          kidx |-> 0 .. (order_ - 1),
                          tidx |-> 0 .. (order_ - 1), pre |-> Members]
    /\ nsamp' = nsamp + 1
    /\ UNCHANGED nset

Next == SetParams \/ SetParamsIter \/ ResetState \/ XWas

Spec == Init /\ [][Next]_vars

(***************************************************************************)
(* Properties.                                                             *)
(***************************************************************************)
\* the order set_params was asked to install, clamped as line 98 clamps it
Requested == Min(call.ord, max_wapl_filt_order)

\* the accumulated gain a of the stored parameters
Gain == WarpGainOf(order_, lambda_, k_)

\* no infinity or NaN in what the object m computes with
FiniteState(m) ==
    /\ IsFinite(m.s2)
    /\ IsFinite(m.next_u)
    /\ \A i \in Idx : i < m.order => IsFinite(m.t[i])

\* the look-ahead accumulator nua of the stored parameters over the delays t
LookAhead(t) == NuLoop(0, order_, Zero, Zero, lambda_, k_, t)

(* C1: unity gain.  After x_was(x) on a state with finite values and       *)
(* parameters of accumulated gain a # 0, the forward accumulator at the    *)
(* end of the stage loop times scaleOut equals x: x = y + u with           *)
(* coefficient 1 on y.                                                     *)
C1_UnityGain ==
    (call.op = "x_was" /\ FiniteState(call.pre) /\ Gain # Zero)
        => RMul(call.a, s2_) = call.x

C1_Witness ==
    /\ call.op = "x_was"
    /\ FiniteState(call.pre)
    /\ Gain \notin {Zero, One}
    /\ order_ = 2
    /\ call.pre.next_u # Zero
    /\ call.x = One

(* C2: order clamp.  After set_params(lambda, ord, coefficients) with      *)
(* ord > MAX_ORDER, order() = MAX_ORDER and k(i) is the i-th supplied      *)
(* coefficient for every i < MAX_ORDER, and no supplied coefficient at an  *)
(* index >= MAX_ORDER is read; with 0 <= ord <= MAX_ORDER, order() = ord   *)
(* and k(i) is the i-th supplied coefficient for every i < ord.            *)
C2_OrderClamp ==
    call.op = "set_params" =>
        /\ call.ord > max_wapl_filt_order =>
              /\ order = max_wapl_filt_order
              /\ \A i \in Idx : k(i) = Coef(call.p, i)
              /\ call.rd \subseteq Idx
        /\ (0 <= call.ord /\ call.ord <= max_wapl_filt_order) =>
              /\ order = call.ord
              /\ \A i \in Idx : i < call.ord => k(i) = Coef(call.p, i)

(* C3: the derived scales are never stale.  In every reachable state       *)
(* scaleIn = 1 and scaleOut = 1/a for the accumulated gain a of the stored *)
(* lambda, order and k; hence warp_gain() = a.                             *)
C3_ScalesFresh ==
    /\ s1_ = One
    /\ s2_ = RDiv(One, Gain)
    /\ warp_gain = Gain

C3_Witness ==
    /\ call.op = "set_params"
    /\ call.pre.s2 \notin {One, s2_}
    /\ s2_ # One
    /\ IsFinite(s2_)

(* C4: bypass at order 0.  While order() = 0, u() is 0.                    *)
C4_Bypass == order = 0 => u = Zero

C4_Witness ==
    /\ order = 0
    /\ call.op = "x_was"
    /\ call.x = One
    /\ \E i \in Idx : t_[i] \notin Garbage

(* C9: order range.  In every reachable state 0 <= order() <= MAX_ORDER,   *)
(* and every index at which the last call read or wrote k_ or t_ lies in   *)
(* [0, MAX_ORDER).                                                         *)
C9_OrderRange ==
    /\ 0 <= order
    /\ order <= max_wapl_filt_order
    /\ call.kidx \subseteq Idx
    /\ call.tidx \subseteq Idx

\* a store through t_ at a negative index (set_params after a negative order)
C9_StoreOutsideArray == \E i \in call.tidx : i < 0

(* C5: reset_state sets every active delay entry and the pending feedback  *)
(* to 0 and leaves order, lambda, k, scaleIn and scaleOut unchanged; the   *)
(* result is the same from any other active delay state, and a second      *)
(* reset_state changes nothing.                                            *)
C5_ResetState ==
    call.op = "reset_state" =>
        /\ \A i \in Idx : i < order => t_[i] = Zero
        /\ u = Zero
        /\ order_ = call.pre.order
        /\ lambda_ = call.pre.lambda
        /\ k_ = call.pre.k
        /\ s1_ = call.pre.s1
        /\ s2_ = call.pre.s2
        /\ Members = reset_state(
              [call.pre EXCEPT
                  !.t = [i \in Idx |-> IF i < order THEN Junk ELSE call.pre.t[i]],
                  !.next_u = Junk])
        /\ reset_state(Members) = Members

C5_Witness ==
    /\ call.op = "reset_state"
    /\ order = 2
    /\ \A i \in Idx : i < order => call.pre.t[i] # Zero
    /\ call.pre.next_u # Zero
    /\ s2_ # One

\* the order before the last call, as an index into t_
OldOrder == IF call.pre.order < 0 THEN 0 ELSE call.pre.order

(* C6: reconfiguration safety.  Directly after a set_params call that      *)
(* raises the order from m to n > m, every delay entry t[i], m <= i < n,   *)
(* is 0 whatever it held before, and the pending feedback is the one       *)
(* computed from t[0..m) alone.                                            *)
C6_GrowZeroes ==
    (call.op = "set_params" /\ order > call.pre.order) =>
        /\ \A i \in Idx : (call.pre.order <= i /\ i < order) => t_[i] = Zero
        /\ u = RMul(LookAhead([i \in Idx |->
                       IF i < OldOrder THEN call.pre.t[i] ELSE Zero]), s2_)

\* a grow from order 1 to 2 over an entry that x_was left behind before a
\* shrink, with history in the entry that stays
C6_Witness ==
    /\ call.op = "set_params"
    /\ call.pre.order = 1
    /\ order = 2
    /\ call.pre.t[1] \notin Garbage
    /\ call.pre.t[0] # Zero
    /\ u # Zero

\* all active delay entries were zero when the last call was made
WasSilent == \A i \in Idx : i < call.pre.order => call.pre.t[i] = Zero

(* C7, as claimed: when all active delay entries are zero, set_params with *)
(* any lambda, order and coefficients leaves u() = 0.                      *)
C7_InitialFeedbackZero_Claimed ==
    (call.op = "set_params" /\ WasSilent) => u = Zero

(* C7, amended: when all active delay entries are zero, set_params with    *)
(* any lambda, order and coefficients whose accumulated gain a is not 0    *)
(* leaves u() = 0, so that the first output y = x - u() is x.              *)
C7_InitialFeedbackZero ==
    (call.op = "set_params" /\ WasSilent /\ Gain # Zero) =>
        /\ u = Zero
        /\ \A x \in XVals : RSub(x, u) = x

C7_Witness ==
    /\ call.op = "set_params"
    /\ WasSilent
    /\ Gain \notin {Zero, One}
    /\ order = 2
    /\ call.pre.t[1] # Zero
    /\ u = Zero

(* C8, as claimed: after a set_params call that lowers the order from m to *)
(* n < m, the stored k[i] is 0 for every n <= i < m.                       *)
C8_ShrinkZeroesK_Claimed ==
    (call.op = "set_params" /\ order < call.pre.order) =>
        \A i \in Idx : (order <= i /\ i < call.pre.order) => k_[i] = Zero

(* C8, amended: after a set_params call that lowers the order from m to    *)
(* n < m, the stored k[i], n <= i < m, keep the values they had before the *)
(* call; no call reads or writes k_ at an index >= the order it leaves.    *)
C8_ShrinkKeepsK ==
    /\ (call.op = "set_params" /\ order < call.pre.order) =>
          \A i \in Idx : (order <= i /\ i < call.pre.order) =>
              k_[i] = call.pre.k[i]
    /\ \A i \in call.kidx : i < order

C8_Witness ==
    /\ call.op = "set_params"
    /\ call.pre.order = 2
    /\ order = 1
    /\ k_[1] \notin Garbage
    /\ k_[0] # call.pre.k[0]

\* set_params called again with the stored lambda, order and coefficients
Again(lands) == set_params(Members, lambda_, order_, k_, lands)

Consistent ==
    /\ u = RMul(s2_, LookAhead(t_))
    /\ \A lands \in Landings : \E r \in {Again(lands)} :
          /\ r.t = t_
          /\ r.next_u = next_u_
          /\ r.s1 = s1_
          /\ r.s2 = s2_

(* C10, as claimed: in every reachable state u() = scaleOut * nua for the  *)
(* look-ahead accumulator nua of the current delay memory, and set_params  *)
(* with the stored parameters changes neither t, u() nor the scales.       *)
C10_FeedbackConsistent_Claimed == Consistent

(* C10, amended: the same in every reachable state in which scaleOut, the  *)
(* pending feedback and the active delay entries are finite.               *)
C10_FeedbackConsistent == FiniteState(Members) => Consistent

C10_Witness ==
    /\ call.op = "x_was"
    /\ FiniteState(Members)
    /\ order = 2
    /\ lambda_ # Zero
    /\ u # Zero
    /\ s2_ # One
    /\ \A i \in Idx : i < order => t_[i] # call.pre.t[i]

====
